---- MODULE Spec2Model ----
(***************************************************************************)
(* Model of the multi-step form component of src/components/form.tsx:      *)
(* the React state of Form (previousStep, currentStep, isSubmitted,        *)
(* formData), the values and errors of the useForm store, and the          *)
(* handlers next, prev, saveStepData, processForm and loadStepData.        *)
(*                                                                         *)
(* next is an async function.  Each "await" in it is a point at which the  *)
(* handler is suspended and other events of the page (edits of the         *)
(* mounted inputs, clicks on Previous, Next or Submit Form) may run, so a  *)
(* call of next is modelled as a pending call that moves through its       *)
(* phases; the constants of the closure (currentStep of the render in      *)
(* which the button was clicked) are kept in the pending call.             *)
(***************************************************************************)
EXTENDS Integers, Sequences, FiniteSets, Bags, TLC

(* ---------------------------- bounds ----------------------------------- *)

\* Number of events in one run that depart from filling in the steps in order
\* and waiting for each call to end: edits other than FirstFill, and clicks on
\* Next or Submit Form made while a call is suspended.
MaxExtra == 1

(* ---------------------------- values ----------------------------------- *)

\* JavaScript values held by the form: undefined, a string (a sequence of
\* characters) or a boolean.
Undef == [t |-> "undefined"]
Str(s) == [t |-> "string", s |-> s]
Bool(b) == [t |-> "boolean", b |-> b]

\* An object with no keys.
EmptyObj == [k \in {} |-> Undef]

\* obj[k] of JavaScript: undefined when the key is absent.
Get(obj, k) == IF k \in DOMAIN obj THEN obj[k] ELSE Undef

\* { ...a, ...b }
Spread(a, b) ==
  [k \in (DOMAIN a) \cup (DOMAIN b) |-> IF k \in DOMAIN b THEN b[k] ELSE a[k]]

\* Texts a user types into a text input, and into the email input.
TextInputs == { <<>>, <<"a">> }
EmailInputs == { <<>>, <<"b", "a", "d">>, <<"a", "@", "b", ".", "c", "o">> }

(* ---------------------------- schema ----------------------------------- *)

FormDataSchema ==
  [ firstName |-> [type |-> "string", check |-> "min1", optional |-> FALSE,
                   message |-> "First name is required"],
    lastName |-> [type |-> "string", check |-> "min1", optional |-> FALSE,
                  message |-> "Last name is required"],
    email |-> [type |-> "string", check |-> "email", optional |-> FALSE,
               message |-> "Invalid email address"],
    country |-> [type |-> "string", check |-> "min1", optional |-> FALSE,
                 message |-> "Country is required"],
    state |-> [type |-> "string", check |-> "min1", optional |-> FALSE,
               message |-> "State is required"],
    city |-> [type |-> "string", check |-> "min1", optional |-> FALSE,
              message |-> "City is required"],
    street |-> [type |-> "string", check |-> "min1", optional |-> FALSE,
                message |-> "Street is required"],
    zip |-> [type |-> "string", check |-> "min1", optional |-> FALSE,
             message |-> "ZIP code is required"],
    joinNewsletter |-> [type |-> "boolean", check |-> "none", optional |-> TRUE,
                        message |-> ""],
    enableNotification |-> [type |-> "boolean", check |-> "none",
                            optional |-> TRUE, message |-> ""] ]

Inputs == DOMAIN FormDataSchema

\* Positions of character c in the string s.
Positions(s, c) == { i \in 1..Len(s) : s[i] = c }

\* z.string().email(): one "@", a non-empty local part, and a domain made of
\* non-empty labels separated by dots whose last label has two characters or
\* more.
IsEmail(s) ==
  /\ Cardinality(Positions(s, "@")) = 1
  /\ LET at == CHOOSE i \in Positions(s, "@") : TRUE
         dots == Positions(s, ".")
         after == { i \in dots : i > at }
     IN  /\ at > 1
         /\ 1 \notin dots
         /\ (at - 1) \notin dots
         /\ \A i \in dots : (i + 1) \notin dots
         /\ after # {}
         /\ (at + 1) \notin dots
         /\ \A i \in after : Len(s) - i >= 2 \/ \E j \in after : j > i

\* The issue zod reports for value v of field f, or "" when v parses.
FieldIssue(f, v) ==
  LET sch == FormDataSchema[f] IN
  IF v = Undef
    THEN IF sch.optional THEN "" ELSE "Required"
  ELSE IF v.t # sch.type
    THEN "Invalid type"
  ELSE IF sch.check = "min1"
    THEN IF Len(v.s) >= 1 THEN "" ELSE sch.message
  ELSE IF sch.check = "email"
    THEN IF IsEmail(v.s) THEN "" ELSE sch.message
  ELSE ""

\* zodResolver(FormDataSchema) on the values of the form: the errors object,
\* one message for every field whose value does not parse.
Resolver(vals) ==
  LET bad == { f \in Inputs : FieldIssue(f, Get(vals, f)) # "" }
  IN  [f \in bad |-> FieldIssue(f, Get(vals, f))]

(* ---------------------------- steps ------------------------------------ *)

steps ==
  0 :> [id |-> "Step 1", name |-> "Personal Information",
        fields |-> <<"firstName", "lastName", "email">>]
  @@ 1 :> [id |-> "Step 2", name |-> "Address Details",
           fields |-> <<"country", "state", "city", "street", "zip">>]
  @@ 2 :> [id |-> "Step 3", name |-> "Preferences",
           fields |-> <<"joinNewsletter", "enableNotification">>]
  @@ 3 :> [id |-> "Step 4", name |-> "Review & Submit"]

\* steps.length
StepsLength == Cardinality(DOMAIN steps)

Range(seq) == { seq[i] : i \in 1..Len(seq) }

\* steps[i]?.fields || []  as a set of names.
StepFields(i) ==
  IF i \in DOMAIN steps /\ "fields" \in DOMAIN steps[i]
    THEN Range(steps[i].fields)
    ELSE {}

(* ---------------------------- state ------------------------------------ *)

VARIABLES
  previousStep,   \* useState(0), line 44
  currentStep,    \* useState(0), line 45
  isSubmitted,    \* useState(false), line 46
  formData,       \* useState<Partial<Inputs>>({}), line 48
  values,         \* the values held by useForm (getValues / setValue)
  errors,         \* formState.errors of useForm
  pending,        \* the suspended calls of next and of handleSubmit
  extra           \* number of counted events so far (see MaxExtra)

vars == <<previousStep, currentStep, isSubmitted, formData, values, errors,
          pending, extra>>

\* The value an input control reports when it is registered with no value.
ControlDefault(f) ==
  IF FormDataSchema[f].type = "boolean" THEN Bool(FALSE) ELSE Str(<<>>)

\* register(): the inputs rendered for step i take their place in the values
\* of the form; a field that has no value yet takes the value of its control.
Register(i, vals) ==
  [k \in (DOMAIN vals) \cup StepFields(i) |->
     IF k \in DOMAIN vals /\ vals[k] # Undef THEN vals[k] ELSE ControlDefault(k)]

\* loadStepData that sets no value (the effect of line 130 not run).
loadStepDataNone(data, vals) == vals

\* loadStepData: setValue(field, formData[field]) for every key of formData.
loadStepData(data, vals) == Spread(vals, data)

\* The commit of a render: when currentStep has changed, the inputs of the new
\* step are registered and the effect of line 130 runs loadStepData.
Commit(oldStep, newStep, data, vals) ==
  IF newStep = oldStep THEN vals
  ELSE loadStepData(data, Register(newStep, vals))

Init ==
  /\ previousStep = 0
  /\ currentStep = 0
  /\ isSubmitted = FALSE
  /\ formData = EmptyObj
  /\ values = Register(0, EmptyObj)
  /\ errors = EmptyObj
  /\ pending = EmptyBag
  /\ extra = 0

(* ---------------------------- helpers ---------------------------------- *)

\* The names next passes to trigger: steps[currentStep].fields, which is
\* undefined for the review step, and trigger(undefined) checks every field.
TriggerNames(i) ==
  IF "fields" \in DOMAIN steps[i] THEN Range(steps[i].fields) ELSE Inputs

\* trigger() called without names: the resolver's errors for every field.
TriggerErrorsAll(names, vals) == Resolver(vals)

\* The errors trigger(names) finds: the resolver's errors for those names.
TriggerErrors(names, vals) ==
  LET all == Resolver(vals)
  IN  [f \in (DOMAIN all) \cap names |-> all[f]]

\* trigger sets the error of every name that has one and clears the others.
SetErrors(errs, names, found) ==
  [f \in ((DOMAIN errs) \ names) \cup (DOMAIN found) |->
     IF f \in DOMAIN found THEN found[f] ELSE errs[f]]

\* saveStepData with "setFormData(stepData)": the earlier keys are dropped.
saveStepDataNoSpread(step, vals, data) ==
  [f \in { g \in StepFields(step) : Get(vals, g) # Undef } |-> vals[f]]

\* saveStepData with every value of the form as stepData, not only the values
\* of the fields of the step.
saveStepDataAll(step, vals, data) ==
  Spread(data, [f \in { g \in DOMAIN vals : vals[g] # Undef } |-> vals[f]])

\* saveStepData (lines 62-75) for the step of the closure.
saveStepData(step, vals, data) ==
  LET currentFields == StepFields(step)
      stepData == [f \in { g \in currentFields : Get(vals, g) # Undef } |->
                     vals[f]]
  IN  Spread(data, stepData)

\* processForm (lines 78-81): setIsSubmitted(true).
processForm(submitted) == TRUE

\* handleSubmit(processForm): processForm runs when the resolver found no
\* error.
AfterHandleSubmit(found, submitted) ==
  IF DOMAIN found = {} THEN processForm(submitted) ELSE submitted

\* The suspended calls are a bag: two clicks in the same state leave two equal
\* calls.
Suspend(calls, p) == calls (+) SetToBag({p})
Resume(calls, p) == calls (-) SetToBag({p})
\* A click while a call is suspended is counted.
CanSuspend == pending = EmptyBag \/ extra < MaxExtra
CountClick == IF pending = EmptyBag THEN extra ELSE extra + 1

\* What a user can put into the control of field f.
ControlInputs(f) ==
  IF FormDataSchema[f].type = "boolean" THEN { Bool(TRUE), Bool(FALSE) }
  ELSE IF FormDataSchema[f].check = "email" THEN { Str(s) : s \in EmailInputs }
  ELSE { Str(s) : s \in TextInputs }

\* Filling in a step from its first input to its last: f is the first input
\* of the step on screen whose value the schema rejects, and v is a value the
\* schema accepts.  Such edits are not counted; every other edit is.
FirstFill(f, v) ==
  LET fs == steps[currentStep].fields IN
  /\ FieldIssue(f, Get(values, f)) # ""
  /\ FieldIssue(f, v) = ""
  /\ \E i \in 1..Len(fs) :
       /\ fs[i] = f
       /\ \A j \in 1..(i - 1) : FieldIssue(fs[j], Get(values, fs[j])) = ""

(* ---------------------------- actions ---------------------------------- *)

\* The user changes the value of an input of the step on screen.
Edit(f, v) ==
  /\ f \in StepFields(currentStep)
  /\ v \in ControlInputs(f)
  /\ Get(values, f) # v
  /\ values' = [values EXCEPT ![f] = v]
  /\ IF FirstFill(f, v)
       THEN extra' = extra
       ELSE extra < MaxExtra /\ extra' = extra + 1
  /\ UNCHANGED <<previousStep, currentStep, isSubmitted, formData, errors,
                 pending>>

\* next with saveStepData() placed before "await trigger(...)".
NextClickSavesFirst ==
  /\ currentStep # StepsLength - 1
  /\ currentStep \in DOMAIN steps
  /\ CanSuspend
  /\ formData' = saveStepData(currentStep, values, formData)
  /\ pending' = Suspend(pending,
                   [phase |-> "trigger", step |-> currentStep,
                    errs |-> TriggerErrors(TriggerNames(currentStep), values)])
  /\ extra' = CountClick
  /\ UNCHANGED <<previousStep, currentStep, isSubmitted, values, errors>>

\* Click on Next (rendered unless currentStep is steps.length - 1): next runs
\* up to "await trigger(...)" (lines 85-87); the resolver reads the values of
\* the form when trigger is called.
NextClick ==
  /\ currentStep # StepsLength - 1
  /\ currentStep \in DOMAIN steps
  /\ CanSuspend
  /\ pending' = Suspend(pending,
                   [phase |-> "trigger", step |-> currentStep,
                    errs |-> TriggerErrors(TriggerNames(currentStep), values)])
  /\ extra' = CountClick
  /\ UNCHANGED <<previousStep, currentStep, isSubmitted, formData, values,
                 errors>>

\* Click on Next when steps[currentStep] is undefined: line 86 throws and the
\* call ends with nothing changed.
NextThrows ==
  /\ currentStep # StepsLength - 1
  /\ currentStep \notin DOMAIN steps
  /\ UNCHANGED vars

\* "output" of line 87 with "if (!output) return" removed.
TriggerOutputIgnored(p) == TRUE

\* "output" of line 87: trigger found no error among the names.
TriggerOutput(p) == DOMAIN p.errs = {}

\* "return" of line 89 placed after saveStepData().
ReturnedAfterSave(p) ==
  /\ pending' = Resume(pending, p)
  /\ formData' = saveStepData(p.step, values, formData)
  /\ UNCHANGED <<previousStep, currentStep, isSubmitted, values>>

\* "if (!output) return" of line 89: the call ends.
Returned(p) ==
  /\ pending' = Resume(pending, p)
  /\ UNCHANGED <<previousStep, currentStep, isSubmitted, formData, values>>

\* next without "if (currentStep < steps.length - 1)".
NotLastStepAlways(p) == TRUE

\* "currentStep < steps.length - 1" of line 93, on the currentStep of the
\* closure.
NotLastStep(p) == p.step < StepsLength - 1

\* trigger has answered: lines 87-99 up to the next await or the end.
NextTriggered(p) ==
  LET saved == saveStepData(p.step, values, formData) IN
  /\ p.phase = "trigger"
  /\ errors' = SetErrors(errors, TriggerNames(p.step), p.errs)
  /\ extra' = extra
  /\ IF ~TriggerOutput(p)
       THEN Returned(p)
       ELSE /\ formData' = saved
            /\ isSubmitted' = isSubmitted
            /\ IF NotLastStep(p)
                 THEN IF p.step = StepsLength - 2
                        THEN /\ pending' = Suspend(Resume(pending, p),
                                  [phase |-> "submit", step |-> p.step,
                                   errs |-> Resolver(values)])
                             /\ UNCHANGED <<previousStep, currentStep, values>>
                        ELSE /\ pending' = Resume(pending, p)
                             /\ previousStep' = p.step
                             /\ currentStep' = currentStep + 1
                             /\ values' = Commit(currentStep, currentStep + 1,
                                                 saved, values)
                 ELSE /\ pending' = Resume(pending, p)
                      /\ UNCHANGED <<previousStep, currentStep, values>>

\* "await handleSubmit(processForm)()" of line 95 has answered: lines 97-98.
NextSubmitted(p) ==
  /\ p.phase = "submit"
  /\ errors' = p.errs
  /\ isSubmitted' = AfterHandleSubmit(p.errs, isSubmitted)
  /\ previousStep' = p.step
  /\ currentStep' = currentStep + 1
  /\ values' = Commit(currentStep, currentStep + 1, formData, values)
  /\ pending' = Resume(pending, p)
  /\ UNCHANGED <<formData, extra>>

\* prev without "if (currentStep > 0)".
PrevNoGuard ==
  /\ previousStep' = currentStep
  /\ currentStep' = currentStep - 1
  /\ values' = Commit(currentStep, currentStep - 1, formData, values)
  /\ UNCHANGED <<isSubmitted, formData, errors, pending, extra>>

\* Click on Previous: prev (lines 102-107).
Prev ==
  /\ IF currentStep > 0
       THEN /\ previousStep' = currentStep
            /\ currentStep' = currentStep - 1
            /\ values' = Commit(currentStep, currentStep - 1, formData, values)
       ELSE UNCHANGED <<previousStep, currentStep, values>>
  /\ UNCHANGED <<isSubmitted, formData, errors, pending, extra>>

\* Click on Submit Form (lines 458-471), rendered on the review step while
\* isSubmitted is false: the form's onSubmit (line 171) calls
\* handleSubmit(processForm).
SubmitClick ==
  /\ currentStep = StepsLength - 1
  /\ ~isSubmitted
  /\ CanSuspend
  /\ pending' = Suspend(pending,
                   [phase |-> "form", step |-> currentStep,
                    errs |-> Resolver(values)])
  /\ extra' = CountClick
  /\ UNCHANGED <<previousStep, currentStep, isSubmitted, formData, values,
                 errors>>

\* The handleSubmit of the form's onSubmit has answered.
SubmitDone(p) ==
  /\ p.phase = "form"
  /\ errors' = p.errs
  /\ isSubmitted' = AfterHandleSubmit(p.errs, isSubmitted)
  /\ pending' = Resume(pending, p)
  /\ UNCHANGED <<previousStep, currentStep, formData, values, extra>>

Next ==
  \/ \E f \in Inputs : \E v \in ControlInputs(f) : Edit(f, v)
  \/ NextClick
  \/ NextThrows
  \/ \E p \in BagToSet(pending) : NextTriggered(p)
  \/ \E p \in BagToSet(pending) : NextSubmitted(p)
  \/ Prev
  \/ SubmitClick
  \/ \E p \in BagToSet(pending) : SubmitDone(p)

Spec == Init /\ [][Next]_vars

\* next called while the review step is on screen.  No button calls it there
\* (the Next button is rendered only when currentStep is not
\* steps.length - 1), but the handler is written for it: lines 85-87 run with
\* steps[currentStep].fields undefined, so trigger checks every field.
NextCall ==
  /\ currentStep = StepsLength - 1
  /\ CanSuspend
  /\ pending' = Suspend(pending,
                   [phase |-> "trigger", step |-> currentStep,
                    errs |-> TriggerErrors(TriggerNames(currentStep), values)])
  /\ extra' = CountClick
  /\ UNCHANGED <<previousStep, currentStep, isSubmitted, formData, values,
                 errors>>

\* The widget with next callable on every step.
NextAnywhere == Next \/ NextCall

SpecCall == Init /\ [][NextAnywhere]_vars

(* ---------------------------- claims ----------------------------------- *)

\* The calls of next that are suspended (at line 87 or at line 95).
AdvanceCalls == { p \in BagToSet(pending) : p.phase \in {"trigger", "submit"} }

\* The fields of step i the schema requires.
RequiredFields(i) == { f \in StepFields(i) : ~FormDataSchema[f].optional }

\* An empty text, or the text "bad" in the email input.
EmptyOrInvalid(f, v) ==
  \/ v = Str(<<>>)
  \/ f = "email" /\ v = Str(<<"b", "a", "d">>)

\* C1: a call of next made at step i while a required field of step i is
\* empty or invalid carries an error with the schema's message for that field,
\* and when trigger has answered that call ends, leaving currentStep as it
\* is, with that error in the errors of the form.
C1_FailedAdvanceKeepsStep ==
  [][ /\ NextClick =>
           \A f \in RequiredFields(currentStep) :
             EmptyOrInvalid(f, Get(values, f)) =>
               \E p \in BagToSet(pending') :
                 /\ pending' = Suspend(pending, p)
                 /\ p.phase = "trigger" /\ p.step = currentStep
                 /\ f \in DOMAIN p.errs
                 /\ p.errs[f] = FormDataSchema[f].message
      /\ \A p \in BagToSet(pending) :
           (NextTriggered(p) /\ DOMAIN p.errs # {}) =>
             /\ currentStep' = currentStep
             /\ pending' = Resume(pending, p)
             /\ \A f \in DOMAIN p.errs :
                  f \in DOMAIN errors' /\ errors'[f] = p.errs[f] ]_vars

\* A failed call of next at step 1 has ended: the step is still 1 and country
\* has its error.
C1_Witness ==
  /\ currentStep = 1
  /\ pending = EmptyBag
  /\ "country" \in DOMAIN errors
  /\ errors["country"] = "Country is required"

\* C2: when trigger answers a call of next made at step i with no error, the
\* fields of step i take the values of their inputs in formData and every
\* other key of formData is as before; for i below steps.length - 2
\* currentStep goes up by one in that step (to i + 1 when it was i), and for
\* i = steps.length - 2 it does so when handleSubmit has answered.
C2_AdvanceMergesStep ==
  [][ \A p \in BagToSet(pending) :
        /\ (NextTriggered(p) /\ DOMAIN p.errs = {}) =>
             /\ \A f \in StepFields(p.step) :
                  f \in DOMAIN formData' /\ formData'[f] = Get(values, f)
             /\ \A k \in Inputs \ StepFields(p.step) :
                  /\ k \in DOMAIN formData' <=> k \in DOMAIN formData
                  /\ Get(formData', k) = Get(formData, k)
             /\ p.step < StepsLength - 2 =>
                  /\ currentStep' = currentStep + 1
                  /\ currentStep = p.step => currentStep' = p.step + 1
             /\ p.step = StepsLength - 2 =>
                  /\ currentStep' = currentStep
                  /\ \E q \in BagToSet(pending') :
                       q.phase = "submit" /\ q.step = p.step
        /\ NextSubmitted(p) =>
             /\ formData' = formData
             /\ currentStep' = currentStep + 1
             /\ currentStep = p.step => currentStep' = p.step + 1 ]_vars

\* The advance from step 1 has ended: step 2 is on screen and the address
\* fields are recorded with the values of their inputs.
C2_Witness ==
  /\ previousStep = 1 /\ currentStep = 2
  /\ pending = EmptyBag
  /\ \A f \in StepFields(1) : f \in DOMAIN formData /\ formData[f] = values[f]
  /\ formData["zip"] = Str(<<"a">>)

\* C3: prev at step i > 0 makes the step i - 1, starts no validation and
\* leaves formData, the errors and isSubmitted as they are; at step 0 it
\* changes nothing.
C3_RetreatUngated ==
  [][ Prev =>
        /\ formData' = formData /\ errors' = errors
        /\ pending' = pending /\ isSubmitted' = isSubmitted
        /\ currentStep > 0 => currentStep' = currentStep - 1
        /\ currentStep = 0 => UNCHANGED vars ]_vars

\* prev has run at step 1 while country was empty, and what step 0 recorded
\* is still there.
C3_Witness ==
  /\ previousStep = 1 /\ currentStep = 0
  /\ Get(values, "country") = Str(<<>>)
  /\ "firstName" \in DOMAIN formData
  /\ "country" \notin DOMAIN errors

\* C4: isSubmitted goes from false to true only in the last step of a call
\* of next made at step steps.length - 2, and never goes back to false.
C4_SubmittedOnlyByAdvance ==
  /\ [][ (~isSubmitted /\ isSubmitted') =>
           \E p \in BagToSet(pending) :
             p.step = StepsLength - 2 /\ NextSubmitted(p) ]_vars
  /\ [][ isSubmitted => isSubmitted' ]_vars

\* C5: currentStep is one of 0 .. steps.length - 1.
C5_StepInRange == currentStep \in 0..(StepsLength - 1)

\* C6: at most one call of next is suspended at any time.
C6_NoOverlappingAdvance ==
  \A p \in AdvanceCalls : AdvanceCalls = {p} /\ CopiesIn(p, pending) = 1

\* C7: no action removes a key from formData.
C7_KeysNeverShrink == [][ DOMAIN formData \subseteq DOMAIN formData' ]_vars

\* Every required field is recorded.
C7_Witness == \A i \in DOMAIN steps : RequiredFields(i) \subseteq DOMAIN formData

\* C8: an entry of formData for a field of step 0 changes only when trigger
\* answers, with no error, a call of next made at step 0; the calls made at
\* steps 1 and 2 leave it present with the same value.
C8_StepZeroKept ==
  [][ \A f \in StepFields(0) \cap DOMAIN formData :
        Get(formData', f) # formData[f] =>
          \E p \in BagToSet(pending) :
            p.step = 0 /\ DOMAIN p.errs = {} /\ NextTriggered(p) ]_vars

\* The review step has been reached through steps 1 and 2 and the entries of
\* step 0 are the values typed at step 0.
C8_Witness ==
  /\ currentStep = StepsLength - 1 /\ previousStep = StepsLength - 2
  /\ isSubmitted
  /\ formData["firstName"] = Str(<<"a">>)
  /\ formData["lastName"] = Str(<<"a">>)
  /\ formData["email"] = Str(<<"a", "@", "b", ".", "c", "o">>)
  /\ "zip" \in DOMAIN formData /\ "joinNewsletter" \in DOMAIN formData

\* C9: neither the click that starts a call of next nor the end of a call
\* whose trigger found an error changes formData, currentStep, previousStep
\* or isSubmitted; the end of the call sets the errors of the names checked.
C9_FailedAdvanceFrame ==
  [][ /\ NextClick =>
           UNCHANGED <<formData, currentStep, previousStep, isSubmitted>>
      /\ \A p \in BagToSet(pending) :
           (NextTriggered(p) /\ DOMAIN p.errs # {}) =>
             /\ UNCHANGED <<formData, currentStep, previousStep, isSubmitted>>
             /\ \A f \in Inputs \ TriggerNames(p.step) :
                  Get(errors', f) = Get(errors, f) ]_vars

\* A failed call of next at step 0 has ended and nothing is recorded.
C9_Witness ==
  /\ errors # EmptyObj
  /\ pending = EmptyBag
  /\ currentStep = 0 /\ previousStep = 0
  /\ formData = EmptyObj /\ ~isSubmitted

\* C10: currentStep changes by +1 or -1 only, and it goes from i to i + 1
\* only in a step of a call of next made at step i, whose trigger found no
\* error among the fields of step i.
C10_NoStepSkipped ==
  [][ currentStep' # currentStep =>
        /\ currentStep' \in {currentStep + 1, currentStep - 1}
        /\ currentStep' = currentStep + 1 =>
             \E p \in BagToSet(pending) :
               /\ p.step = currentStep
               /\ (NextTriggered(p) /\ DOMAIN p.errs = {}) \/ NextSubmitted(p)
    ]_vars

\* C11: whenever currentStep is the review step (steps.length - 1), the
\* validation of the whole schema has passed and processForm has run:
\* isSubmitted is true.
C11_ReviewImpliesSubmitted ==
  currentStep = StepsLength - 1 => isSubmitted

\* A step of a call of next after which the call still waits for a validation
\* of its own: the click (trigger is pending), and at step steps.length - 2
\* the step that follows a trigger without errors (handleSubmit is pending).
StillValidating ==
  \/ NextClick
  \/ \E p \in BagToSet(pending) :
       NextTriggered(p) /\ TriggerOutput(p) /\ p.step = StepsLength - 2

\* C12 (as stated): a call of next writes nothing to formData, currentStep,
\* previousStep or isSubmitted before its validation has finished, the
\* validation of the whole schema at step steps.length - 2 included.
C12_NoWriteBeforeValidation ==
  [][ StillValidating =>
        UNCHANGED <<formData, previousStep, currentStep, isSubmitted>> ]_vars

\* C12 (amended): a call of next writes nothing to formData, currentStep,
\* previousStep or isSubmitted before its trigger has answered; at step
\* steps.length - 2 the step that follows the trigger writes formData only
\* and leaves the call waiting for handleSubmit, so currentStep, previousStep
\* and isSubmitted are written after the validation of the whole schema.
C12_NoWriteBeforeTrigger ==
  [][ /\ NextClick =>
           UNCHANGED <<formData, previousStep, currentStep, isSubmitted>>
      /\ \A p \in BagToSet(pending) :
           (NextTriggered(p) /\ TriggerOutput(p) /\ p.step = StepsLength - 2)
             => /\ UNCHANGED <<previousStep, currentStep, isSubmitted>>
                /\ formData' = saveStepData(p.step, values, formData)
                /\ \E q \in BagToSet(pending') :
                     q.phase = "submit" /\ q.step = p.step ]_vars

\* A call of next made at step 2 waits for handleSubmit: the values of step 2
\* are in formData, and currentStep and isSubmitted are as they were.
C12_Witness ==
  /\ \E q \in BagToSet(pending) : q.phase = "submit"
  /\ StepFields(StepsLength - 2) \subseteq DOMAIN formData
  /\ currentStep = StepsLength - 2
  /\ ~isSubmitted

\* C13: whenever currentStep changes, by a call of next or by prev, every
\* field of the step entered that has a value in formData has that value as
\* its value in the form.
C13_EnteredStepLoaded ==
  [][ currentStep' # currentStep =>
        \A f \in StepFields(currentStep') \cap DOMAIN formData' :
          Get(values', f) = formData'[f] ]_vars

\* Step 1 has been entered from step 0 with its values already in formData
\* (after going on to step 2 and back), and the inputs show those values.
C13_Witness ==
  /\ currentStep = 1 /\ previousStep = 0
  /\ pending = EmptyBag
  /\ StepFields(1) \subseteq DOMAIN formData
  /\ \A f \in StepFields(1) : Get(values, f) = formData[f]

\* The fields among fs whose value in vals the schema rejects.
Rejected(fs, vals) == { f \in fs : FieldIssue(f, Get(vals, f)) # "" }

\* C14: a call of next made at a step i that has fields checks the values the
\* fields of step i have at the click: it carries an error, with the issue of
\* the schema, for exactly the fields of step i whose value the schema
\* rejects; when trigger has answered, the errors of the fields of step i are
\* those and the errors of every other field are as they were.  Only the
\* handleSubmit of a call made at step steps.length - 2 checks every field,
\* and its answer replaces the errors of every field.
C14_ErrorsScopedToStep ==
  /\ [][ (NextClick /\ StepFields(currentStep) # {}) =>
           \E p \in BagToSet(pending') :
             /\ p.phase = "trigger" /\ p.step = currentStep
             /\ DOMAIN p.errs = Rejected(StepFields(currentStep), values)
             /\ \A f \in DOMAIN p.errs :
                  p.errs[f] = FieldIssue(f, Get(values, f)) ]_vars
  /\ [][ \A p \in BagToSet(pending) :
           (NextTriggered(p) /\ StepFields(p.step) # {}) =>
             /\ DOMAIN p.errs \subseteq StepFields(p.step)
             /\ \A f \in StepFields(p.step) :
                  Get(errors', f) = Get(p.errs, f)
             /\ \A f \in Inputs \ StepFields(p.step) :
                  Get(errors', f) = Get(errors, f) ]_vars
  /\ [][ \A p \in BagToSet(pending) :
           (NextTriggered(p) /\ TriggerOutput(p)
             /\ p.step = StepsLength - 2) =>
             \E q \in BagToSet(pending') :
               /\ q.phase = "submit"
               /\ DOMAIN q.errs = Rejected(Inputs, values) ]_vars
  /\ [][ \A p \in BagToSet(pending) :
           NextSubmitted(p) =>
             p.step = StepsLength - 2 /\ errors' = p.errs ]_vars

\* A call of next at step 0 with the text "bad" in the email input has ended:
\* the email has its error, and country, which the schema rejects as well, has
\* none.
C14_Witness ==
  /\ currentStep = 0 /\ pending = EmptyBag
  /\ Get(values, "email") = Str(<<"b", "a", "d">>)
  /\ "email" \in DOMAIN errors
  /\ errors["email"] = "Invalid email address"
  /\ "country" \in Rejected(Inputs, values)
  /\ "country" \notin DOMAIN errors

\* C15: every value in formData parses under the schema of its field.
C15_StoredValuesValid ==
  \A f \in DOMAIN formData : FieldIssue(f, formData[f]) = ""

\* A step in which handleSubmit invokes processForm: the handleSubmit of call
\* p (of next, line 95, or of the form's onSubmit, line 171) has answered and
\* the resolver found no error.
ProcessFormInvoked(p) ==
  /\ NextSubmitted(p) \/ SubmitDone(p)
  /\ DOMAIN p.errs = {}

\* C16: processForm is invoked at most once.  processForm is the only writer
\* of isSubmitted and sets it to true, so isSubmitted is true exactly when
\* processForm has been invoked; the property says that processForm is never
\* invoked when it has been invoked before.
C16_ProcessFormOnce ==
  [][ \A p \in BagToSet(pending) : ProcessFormInvoked(p) => ~isSubmitted ]_vars

\* C17: a call of next made while currentStep is steps.length - 1 leaves
\* currentStep, previousStep, formData and isSubmitted as they are, in the
\* step up to "await trigger" and in the step that follows it.
C17_AdvanceAtLastStepFrame ==
  /\ [][ NextCall =>
           UNCHANGED <<currentStep, previousStep, formData, isSubmitted>> ]_vars
  /\ [][ \A p \in BagToSet(pending) :
           (NextTriggered(p) /\ p.step = StepsLength - 1) =>
             UNCHANGED <<currentStep, previousStep, formData, isSubmitted>>
     ]_vars

\* A call of next made on the review step is suspended at "await trigger",
\* which found no error, so that the call goes on past line 89.
C17_Witness ==
  /\ currentStep = StepsLength - 1
  /\ \E p \in BagToSet(pending) :
       p.phase = "trigger" /\ p.step = StepsLength - 1 /\ DOMAIN p.errs = {}

\* delta of line 47.
delta == currentStep - previousStep

\* C18: whenever currentStep changes, previousStep becomes the value
\* currentStep had before the change; so delta is -1, 0 or 1 in every state,
\* it is 1 after a step of a call of next that moves the widget on, and -1
\* after a prev that moves it back.
C18_PreviousStepTracks ==
  /\ [](delta \in {-1, 0, 1})
  /\ [][ currentStep' # currentStep => previousStep' = currentStep ]_vars
  /\ [][ \A p \in BagToSet(pending) :
           \/ NextTriggered(p) /\ currentStep' # currentStep
           \/ NextSubmitted(p)
           => delta' = 1 ]_vars
  /\ [][ (Prev /\ currentStep' # currentStep) => delta' = -1 ]_vars

====
